---- MODULE Spec2Model ----
(***************************************************************************)
(* State-machine model of tui-json-viewer (src/main.go): the application   *)
(* state of appState, the key handlers installed by setupKeyBindings, the  *)
(* file catalog kept by reloadJSONFiles and the line-oriented search of    *)
(* appState.performSearch with its next/previous navigation; and the       *)
(* package-level functions loadJSONFilesWithContext, performSearch and     *)
(* colorizeJSON, each applied to drawn arguments.                          *)
(*                                                                         *)
(* Specifications: Spec (the search session), BrowseSpec (catalog and      *)
(* panes), ReloadSpec (search session with reloads), WalkSpec (the         *)
(* directory walk of the first reload), SearchFnSpec (performSearch) and   *)
(* ColorizeSpec (colorizeJSON).                                            *)
(*                                                                         *)
(* Text is a sequence of lines, a line a sequence of one-character         *)
(* strings.  Indices (list items, lines, columns, the current result) are  *)
(* 0-based as in the Go code; a TLA+ sequence s holds index i at s[i+1].   *)
(***************************************************************************)
EXTENDS Integers, Sequences, FiniteSets, TLC

(***************************************************************************)
(* Bounds of the model.                                                    *)
(***************************************************************************)
\* longest in-progress query the user types
MaxQuery == 2

\* matches the slice of performSearch can hold before the process runs out of
\* memory; more than any search of the files below that ends records
MaxResults == 4

\* longest content handed to the package-level performSearch
MaxContent == 5

\* most pieces of a string value and most items of an array in the objects
\* handed to colorizeJSON
MaxAtoms == 2
MaxItems == 2

\* positions the slice of the package-level performSearch can hold before the
\* process runs out of memory; more than a content of MaxContent characters
\* has occurrences of a query
MaxPositions == 7

(***************************************************************************)
(* The files of the working directory and what the content pane shows for  *)
(* each: the lines of json.MarshalIndent(..., "", "  ") of the decoded     *)
(* object (keys sorted), which is what fileContent.GetText(true) returns   *)
(* once the color tags are stripped.                                       *)
(*   a.json  {"n": 1, "o": "no", "r": "n"}                                 *)
(*   b.json  {"c": 2}                                                      *)
(*   c.json  not a JSON object (json.Unmarshal fails)                      *)
(***************************************************************************)
Q == "\""

DocA ==
  << <<"{">>,
     <<" ", " ", Q, "n", Q, ":", " ", "1", ",">>,
     <<" ", " ", Q, "o", Q, ":", " ", Q, "n", "o", Q, ",">>,
     <<" ", " ", Q, "r", Q, ":", " ", Q, "n", Q>>,
     <<"}">> >>

DocB ==
  << <<"{">>,
     <<" ", " ", Q, "c", Q, ":", " ", "2">>,
     <<"}">> >>

\* strings.Split("", "\n") is one empty line: the pane before any selection
EmptyText == << <<>> >>

\* outcome of readFileContent + json.Unmarshal for a path whose file can be
\* read
FileStatus(path) ==
  CASE path = "a.json" -> "ok"
    [] path = "b.json" -> "ok"
    [] path = "c.json" -> "invalid"
    [] OTHER -> "unreadable"

\* the outcomes of one readFileContent + json.Unmarshal of a path: a file of
\* the directory can also fail to open or to be read (removed or made
\* unreadable since the walk that listed it)
ReadOutcomes(path) == {FileStatus(path), "unreadable"}

\* visible text of colorizeJSON(MarshalIndent(decoded file))
Rendered(path) == IF path = "a.json" THEN DocA ELSE DocB

(***************************************************************************)
(* The directory walk.  A directory is the sequence of entries that        *)
(* filepath.Walk hands to its callback, the root first and the rest in     *)
(* lexical order: [path, isDir, ext, err], ext being filepath.Ext of the   *)
(* name and err whether the entry could not be accessed.                   *)
(***************************************************************************)
Entry(path, isDir, ext, err) == [path |-> path, isDir |-> isDir, ext |-> ext, err |-> err]

\* the root of the walk, "."
Root == Entry(".", TRUE, "", FALSE)

\* what the working directory can hold beside its root: the three files, a
\* directory named like a JSON file, a text file and an entry that cannot be
\* accessed
AllEntries ==
  << Entry("a.json", FALSE, ".json", FALSE),
     Entry("b.json", FALSE, ".json", FALSE),
     Entry("c.json", FALSE, ".json", FALSE),
     Entry("d.json", TRUE, ".json", FALSE),
     Entry("notes.txt", FALSE, ".txt", FALSE),
     Entry("z", FALSE, "", TRUE) >>

\* the directory that holds the entries of the set S
DirOf(S) ==
  LET Held(e) == e \in S
  IN  <<Root>> \o SelectSeq(AllEntries, Held)

Dirs == { DirOf(S) : S \in SUBSET {AllEntries[i] : i \in 1..Len(AllEntries)} }

\* filepath.Walk with the callback of loadJSONFilesWithContext, from entry k
\* (0-based) on, files being the paths appended so far.  The context is done
\* from the visit of entry cancelAt on: the select of the callback takes its
\* ctx.Done() case and the error ends the walk.
RECURSIVE Walk(_, _, _, _)
Walk(entries, cancelAt, k, files) ==
  IF k >= Len(entries) THEN [err |-> FALSE, files |-> files]
  ELSE IF k >= cancelAt THEN [err |-> TRUE, files |-> files]
  ELSE IF entries[k + 1].err THEN [err |-> TRUE, files |-> files]
  ELSE IF ~entries[k + 1].isDir /\ entries[k + 1].ext = ".json"
    THEN Walk(entries, cancelAt, k + 1, Append(files, entries[k + 1].path))
    ELSE Walk(entries, cancelAt, k + 1, files)

\* loadJSONFilesWithContext that returns what it gathered along with the error
loadJSONFilesKeepsGathered(entries, cancelAt) == Walk(entries, cancelAt, 0, <<>>)

\* loadJSONFilesWithContext(ctx, dir): nil and an error when the walk failed
loadJSONFilesWithContext(entries, cancelAt) ==
  LET w == Walk(entries, cancelAt, 0, <<>>)
  IN  IF w.err THEN [err |-> TRUE, files |-> <<>>] ELSE w

\* the working directory of the viewer: without entries, or with the three
\* files and the text file (the directory may change between two reloads)
WorkDirs ==
  { DirOf({}),
    DirOf({AllEntries[1], AllEntries[2], AllEntries[3], AllEntries[5]}) }

\* what loadJSONFilesWithContext returns for the working directory: the
\* .json files of the walk, or an error when the context is done before the
\* walk ends
Walks ==
  UNION { { loadJSONFilesWithContext(d, t) : t \in 0..Len(d) } : d \in WorkDirs }

\* the file lists of the walks that end without error
Listings == { w.files : w \in { x \in Walks : ~x.err } }

\* the runes the keyboard sends
Runes == {"q", "r", "c", "o", "h", "/", "n", "N"}

(***************************************************************************)
(* strings.Index on character sequences                                    *)
(***************************************************************************)
\* s[from:] of Go, from 0-based
Suffix(s, from) == SubSeq(s, from + 1, Len(s))

\* strings.Index(s, sub): the least 0-based offset of sub in s, or -1
Index(s, sub) ==
  LET hits == { i \in 0..(Len(s) - Len(sub)) : SubSeq(s, i + 1, i + Len(sub)) = sub }
  IN  IF hits = {} THEN -1 ELSE CHOOSE i \in hits : \A j \in hits : i <= j

(***************************************************************************)
(* State                                                                   *)
(***************************************************************************)
VARIABLES
  pc,                 \* "idle": the event loop waits for a key; "search": inside
                      \* performSearch; "stopped": app.Stop(); "crashed": a panic
                      \* or fatal runtime error ended the process
  fileList,           \* tview.List items: [text, colored] per item
  currentItem,        \* fileList.GetCurrentItem()
  actionFuncs,        \* state.actionFuncs: [file, fileIndex] per closure
  contentText,        \* fileContent: visible lines
  contentTitle,       \* fileContent title
  highlight,          \* fileContent highlighted region id ("" = none)
  scrollRow,          \* fileContent row offset (first argument of ScrollTo)
  scrollCol,          \* fileContent column offset (second argument of ScrollTo)
  secondCreated,      \* state.secondFileContent # nil
  secondText,         \* secondFileContent text
  secondTitle,        \* secondFileContent title
  secondFileVisible,
  debugText,          \* debugView text (the status line)
  focus,              \* the primitive that holds input focus
  root,               \* the application root: "layout" or "modal"
  isFileListFocused,
  activeFileIndex,
  layoutHorizontal,
  searchString,
  searchResults,      \* sequence of [line, pos]
  currentSearchIndex,
  searchMode,
  scanLine,           \* performSearch: i of the range loop
  scanIndex,          \* performSearch: index of the inner loop
  call                \* the call of a package-level function that is under way:
                      \* its arguments, its locals and what it returns

searchVars == <<searchString, searchResults, currentSearchIndex, searchMode>>
scanVars == <<scanLine, scanIndex>>
listVars == <<fileList, currentItem, actionFuncs>>
contentVars == <<contentText, contentTitle>>
viewVars == <<highlight, scrollRow, scrollCol>>
secondVars == <<secondCreated, secondText, secondTitle, secondFileVisible>>
focusVars == <<focus, root, isFileListFocused>>

vars == <<pc, fileList, currentItem, actionFuncs, contentText, contentTitle,
          highlight, scrollRow, scrollCol, secondCreated, secondText, secondTitle,
          secondFileVisible, debugText, focus, root, isFileListFocused,
          activeFileIndex, layoutHorizontal, searchString, searchResults,
          currentSearchIndex, searchMode, scanLine, scanIndex, call>>

\* no package-level function is called on its own: the handlers run
NoCall == [fn |-> "none"]

\* a status line: the message and what fmt.Sprintf puts in it
Msg(kind, a, b, q) == [kind |-> kind, a |-> a, b |-> b, q |-> q]

(***************************************************************************)
(* Initial state: initializeApp, setupLayout, the first reloadJSONFiles of *)
(* main and SetRoot(rootLayout, true), which focuses the file list.        *)
(***************************************************************************)
\* the items fileList.AddItem adds for a listing
ItemsOf(listing) == [i \in 1..Len(listing) |-> [text |-> listing[i], colored |-> FALSE]]

\* the closures appended to actionFuncs: each captures file and fileIndex
ActionsOf(listing) == [i \in 1..Len(listing) |-> [file |-> listing[i], fileIndex |-> i - 1]]

Init ==
  /\ pc = "idle"
  /\ \E walk \in Walks :
       IF walk.err
         THEN /\ fileList = <<>>
              /\ actionFuncs = <<>>
              /\ debugText = Msg("LoadFailed", 0, 0, <<>>)
         ELSE /\ fileList = ItemsOf(walk.files)
              /\ actionFuncs = ActionsOf(walk.files)
              /\ debugText = Msg("Select", 0, 0, <<>>)
  /\ currentItem = 0
  /\ contentText = EmptyText
  /\ contentTitle = "Content"
  /\ highlight = ""
  /\ scrollRow = 0
  /\ scrollCol = 0
  /\ secondCreated = FALSE
  /\ secondText = EmptyText
  /\ secondTitle = ""
  /\ secondFileVisible = FALSE
  /\ focus = "fileList"
  /\ root = "layout"
  /\ isFileListFocused = TRUE
  /\ activeFileIndex = 0
  /\ layoutHorizontal = TRUE
  /\ searchString = <<>>
  /\ searchResults = <<>>
  /\ currentSearchIndex = 0
  /\ searchMode = FALSE
  /\ scanLine = 0
  /\ scanIndex = -1
  /\ call = NoCall

(***************************************************************************)
(* The search commands                                                     *)
(***************************************************************************)
\* strconv.Itoa(result.line): the region id handed to Highlight
Itoa(n) == ToString(n)

\* startSearch, bound to '/'
startSearch ==
  /\ searchMode' = TRUE
  /\ searchString' = <<>>
  /\ debugText' = Msg("Search", 0, 0, <<>>)
  /\ focus' = "debugView"
  /\ UNCHANGED <<pc, listVars, contentVars, viewVars, secondVars, root,
                 isFileListFocused, activeFileIndex, layoutHorizontal, call,
                 searchResults, currentSearchIndex, scanVars>>

\* cancelSearch that forgets to drop the results and the highlight
cancelSearchKeepsResults ==
  /\ searchMode' = FALSE
  /\ searchString' = <<>>
  /\ debugText' = Msg("Empty", 0, 0, <<>>)
  /\ focus' = "fileContent"
  /\ UNCHANGED <<pc, listVars, contentVars, viewVars, secondVars, root,
                 isFileListFocused, activeFileIndex, layoutHorizontal, call,
                 searchResults, currentSearchIndex, scanVars>>

\* cancelSearch, bound to Escape in search mode
cancelSearch ==
  /\ searchMode' = FALSE
  /\ searchString' = <<>>
  /\ searchResults' = <<>>
  /\ currentSearchIndex' = 0
  /\ highlight' = ""
  /\ debugText' = Msg("Empty", 0, 0, <<>>)
  /\ focus' = "fileContent"
  /\ UNCHANGED <<pc, listVars, contentVars, scrollRow, scrollCol, secondVars, root,
                 isFileListFocused, activeFileIndex, layoutHorizontal, call, scanVars>>

\* highlightCurrentResult, for a current index that a navigation key has set
highlightCurrentResult(index) ==
  IF Len(searchResults) = 0
    THEN UNCHANGED viewVars
    ELSE /\ highlight' = Itoa(searchResults[index + 1].line)
         /\ scrollRow' = searchResults[index + 1].pos
         /\ scrollCol' = searchResults[index + 1].line

\* findNextResult without its guard: the modulo by a zero length panics
findNextResultUnguarded ==
  IF Len(searchResults) = 0
    THEN /\ pc' = "crashed"
         /\ UNCHANGED <<listVars, contentVars, viewVars, secondVars, debugText,
                        focusVars, activeFileIndex, layoutHorizontal, call, searchVars,
                        scanVars>>
    ELSE /\ currentSearchIndex' = (currentSearchIndex + 1) % Len(searchResults)
         /\ highlightCurrentResult(currentSearchIndex')
         /\ debugText' = Msg("Result", currentSearchIndex' + 1, Len(searchResults), <<>>)
         /\ UNCHANGED <<pc, listVars, contentVars, secondVars, focusVars,
                        activeFileIndex, layoutHorizontal, call, searchString,
                        searchResults, searchMode, scanVars>>

\* findNextResult, bound to 'n'
findNextResult ==
  IF Len(searchResults) = 0
    THEN UNCHANGED vars
    ELSE /\ currentSearchIndex' = (currentSearchIndex + 1) % Len(searchResults)
         /\ highlightCurrentResult(currentSearchIndex')
         /\ debugText' = Msg("Result", currentSearchIndex' + 1, Len(searchResults), <<>>)
         /\ UNCHANGED <<pc, listVars, contentVars, secondVars, focusVars,
                        activeFileIndex, layoutHorizontal, call, searchString,
                        searchResults, searchMode, scanVars>>

\* findPreviousResult that stops at the first result instead of wrapping
findPreviousResultClamped ==
  IF Len(searchResults) = 0
    THEN UNCHANGED vars
    ELSE /\ currentSearchIndex' =
              (IF currentSearchIndex = 0 THEN 0 ELSE currentSearchIndex - 1)
         /\ highlightCurrentResult(currentSearchIndex')
         /\ debugText' = Msg("Result", currentSearchIndex' + 1, Len(searchResults), <<>>)
         /\ UNCHANGED <<pc, listVars, contentVars, secondVars, focusVars,
                        activeFileIndex, layoutHorizontal, call, searchString,
                        searchResults, searchMode, scanVars>>

\* findPreviousResult, bound to 'N'
findPreviousResult ==
  IF Len(searchResults) = 0
    THEN UNCHANGED vars
    ELSE /\ currentSearchIndex' =
              (currentSearchIndex - 1 + Len(searchResults)) % Len(searchResults)
         /\ highlightCurrentResult(currentSearchIndex')
         /\ debugText' = Msg("Result", currentSearchIndex' + 1, Len(searchResults), <<>>)
         /\ UNCHANGED <<pc, listVars, contentVars, secondVars, focusVars,
                        activeFileIndex, layoutHorizontal, call, searchString,
                        searchResults, searchMode, scanVars>>

(***************************************************************************)
(* Outside search mode: the second switch of the input capture             *)
(***************************************************************************)
\* updateActiveFileHighlight: every item loses its color tags, then the item
\* at activeFileIndex is wrapped in [lightgreen]...[-]
updateActiveFileHighlight(list, active) ==
  [i \in 1..Len(list) |-> [text |-> list[i].text, colored |-> (i - 1 = active)]]

\* a file action that blanks the content pane when its read or decode fails
FileActionBlanksPane(a, status, st) ==
  CASE status = "unreadable" ->
         [st EXCEPT !.text = EmptyText, !.debug = Msg("ReadFailed", 0, 0, <<>>)]
    [] status = "invalid" ->
         [st EXCEPT !.text = EmptyText, !.debug = Msg("InvalidJSON", 0, 0, <<>>)]
    [] OTHER ->
         [st EXCEPT !.text = Rendered(a.file),
                    !.title = a.file,
                    !.active = a.fileIndex,
                    !.list = updateActiveFileHighlight(st.list, a.fileIndex)]

\* the closure reloadJSONFiles builds for a file, run on the displayed state
\* st = [text, title, debug, active, list]; status is the outcome of its read
\* and decode of the file
FileAction(a, status, st) ==
  CASE status = "unreadable" ->
         [st EXCEPT !.debug = Msg("ReadFailed", 0, 0, <<>>)]
    [] status = "invalid" ->
         [st EXCEPT !.debug = Msg("InvalidJSON", 0, 0, <<>>)]
    [] OTHER ->
         [st EXCEPT !.text = Rendered(a.file),
                    !.title = a.file,
                    !.active = a.fileIndex,
                    !.list = updateActiveFileHighlight(st.list, a.fileIndex)]

\* List.SetCurrentItem(index): the index is brought into the range of the items
SetCurrentItem(index, n) ==
  IF index >= n THEN (IF n = 0 THEN 0 ELSE n - 1) ELSE index

\* case tcell.KeyRight, tcell.KeyLeft and case tcell.KeyTab; the move the file
\* list itself makes on the returned event is one of the moves of KeyUpDown
KeyFocusToggle ==
  /\ pc = "idle"
  /\ ~searchMode
  /\ isFileListFocused' = ~isFileListFocused
  /\ IF isFileListFocused'
       THEN /\ focus' = "fileList"
            /\ currentItem' = SetCurrentItem(activeFileIndex, Len(fileList))
       ELSE /\ focus' = "fileContent"
            /\ UNCHANGED currentItem
  /\ UNCHANGED <<pc, fileList, actionFuncs, contentVars, viewVars, secondVars,
                 debugText, root, activeFileIndex, layoutHorizontal, call, searchVars,
                 scanVars>>

\* case tcell.KeyUp, tcell.KeyDown: the capture returns the event and the
\* focused file list moves its current item, wrapping around (handleScroll
\* returns at once while secondFileContent is nil)
KeyUpDown(d) ==
  /\ pc = "idle"
  /\ ~searchMode
  /\ root = "layout"
  /\ focus = "fileList"
  /\ Len(fileList) > 0
  /\ currentItem' = (currentItem + d + Len(fileList)) % Len(fileList)
  /\ UNCHANGED <<pc, fileList, actionFuncs, contentVars, viewVars, secondVars,
                 debugText, focusVars, activeFileIndex, layoutHorizontal, call,
                 searchVars, scanVars>>

\* case tcell.KeyEnter with the file list flagged as focused, for an action
\* whose read and decode end with status: the action of the current item runs
KeyEnterOn(status) ==
  /\ pc = "idle"
  /\ ~searchMode
  /\ isFileListFocused
  /\ currentItem < Len(actionFuncs)
  /\ status \in ReadOutcomes(actionFuncs[currentItem + 1].file)
  /\ LET r == FileAction(actionFuncs[currentItem + 1], status,
                         [text |-> contentText, title |-> contentTitle,
                          debug |-> debugText, active |-> currentItem,
                          list |-> fileList])
     IN  /\ contentText' = r.text
         /\ contentTitle' = r.title
         /\ debugText' = r.debug
         /\ activeFileIndex' = r.active
         /\ fileList' = updateActiveFileHighlight(r.list, r.active)
  /\ isFileListFocused' = FALSE
  /\ focus' = "fileContent"
  /\ UNCHANGED <<pc, root, currentItem, actionFuncs, viewVars, secondVars,
                 layoutHorizontal, call, searchVars, scanVars>>

\* case tcell.KeyEnter with the file list flagged as focused; indexing an
\* empty actionFuncs panics
KeyEnter ==
  \/ /\ pc = "idle"
     /\ ~searchMode
     /\ isFileListFocused
     /\ currentItem >= Len(actionFuncs)
     /\ pc' = "crashed"
     /\ activeFileIndex' = currentItem
     /\ UNCHANGED <<listVars, contentVars, debugText, focusVars, viewVars,
                    secondVars, layoutHorizontal, call, searchVars, scanVars>>
  \/ \E status \in {"ok", "invalid", "unreadable"} : KeyEnterOn(status)

\* case tcell.KeyEnter with the flag off, for an action whose read and
\* decode end with status: the capture returns the event, and a file list
\* that holds the focus runs the action of its current item
ListEnterOn(status) ==
  /\ pc = "idle"
  /\ ~searchMode
  /\ ~isFileListFocused
  /\ root = "layout"
  /\ focus = "fileList"
  /\ currentItem < Len(actionFuncs)
  /\ status \in ReadOutcomes(actionFuncs[currentItem + 1].file)
  /\ LET r == FileAction(actionFuncs[currentItem + 1], status,
                         [text |-> contentText, title |-> contentTitle,
                          debug |-> debugText, active |-> activeFileIndex,
                          list |-> fileList])
     IN  /\ contentText' = r.text
         /\ contentTitle' = r.title
         /\ debugText' = r.debug
         /\ activeFileIndex' = r.active
         /\ fileList' = r.list
  /\ UNCHANGED <<pc, currentItem, actionFuncs, viewVars, secondVars, focusVars,
                 layoutHorizontal, call, searchVars, scanVars>>

ListEnter == \E status \in {"ok", "invalid", "unreadable"} : ListEnterOn(status)

\* the done function of the help modal (Enter on its button, or Escape)
ModalClose ==
  /\ pc = "idle"
  /\ ~searchMode
  /\ root = "modal"
  /\ focus = "modal"
  /\ root' = "layout"
  /\ focus' = "fileList"
  /\ UNCHANGED <<pc, listVars, contentVars, viewVars, secondVars, debugText,
                 isFileListFocused, activeFileIndex, layoutHorizontal, call, searchVars,
                 scanVars>>

\* case 'q', 'Q'
quit ==
  /\ pc' = "stopped"
  /\ UNCHANGED <<listVars, contentVars, viewVars, secondVars, debugText, focusVars,
                 activeFileIndex, layoutHorizontal, call, searchVars, scanVars>>

\* reloadJSONFiles for what its loadJSONFilesWithContext returns: the list and
\* the actions are cleared, then filled from the files of a walk without error
ReloadOn(walk) ==
  /\ IF walk.err
       THEN /\ fileList' = <<>>
            /\ actionFuncs' = <<>>
            /\ debugText' = Msg("LoadFailed", 0, 0, <<>>)
       ELSE /\ fileList' = ItemsOf(walk.files)
            /\ actionFuncs' = ActionsOf(walk.files)
            /\ debugText' = Msg("Select", 0, 0, <<>>)
  /\ currentItem' = 0

\* reloadJSONFiles, bound to 'r', 'R'
reloadJSONFiles ==
  /\ \E walk \in Walks : ReloadOn(walk)
  /\ UNCHANGED <<pc, contentVars, viewVars, secondVars, focusVars,
                 activeFileIndex, layoutHorizontal, call, searchVars, scanVars>>

\* the outcome of the read and decode of toggleCompareView, status being the
\* outcome for the file of the item: it opens the main text of the item, color
\* tags included, which names no file once the item is colored
CompareStatus(item, status) == IF item.colored THEN "unreadable" ELSE status

\* toggleCompareView, at a moment when the read and decode of the file of the
\* current item end with status
toggleCompareViewOn(status) ==
  /\ IF secondFileVisible
       THEN /\ secondFileVisible' = FALSE
            /\ UNCHANGED <<pc, secondCreated, secondText, secondTitle, debugText>>
       ELSE /\ secondCreated' = TRUE
            /\ IF currentItem >= Len(fileList)
                 THEN /\ pc' = "crashed"
                      /\ UNCHANGED <<secondText, secondTitle, secondFileVisible, debugText>>
                 ELSE LET item == fileList[currentItem + 1]
                      IN  /\ status \in ReadOutcomes(item.text)
                          /\ CASE CompareStatus(item, status) = "unreadable" ->
                                 /\ debugText' = Msg("ReadFailed", 0, 0, <<>>)
                                 /\ UNCHANGED <<pc, secondText, secondTitle, secondFileVisible>>
                            [] CompareStatus(item, status) = "invalid" ->
                                 /\ debugText' = Msg("InvalidJSON", 0, 0, <<>>)
                                 /\ UNCHANGED <<pc, secondText, secondTitle, secondFileVisible>>
                            [] OTHER ->
                                 /\ secondText' = Rendered(item.text)
                                 /\ secondTitle' = item.text
                                 /\ secondFileVisible' = TRUE
                                 /\ UNCHANGED <<pc, debugText>>
  /\ UNCHANGED <<listVars, contentVars, viewVars, focusVars, activeFileIndex,
                 layoutHorizontal, call, searchVars, scanVars>>

\* toggleCompareView, bound to 'c', 'C'
toggleCompareView ==
  \E status \in {"ok", "invalid", "unreadable"} : toggleCompareViewOn(status)

\* toggleLayout, bound to 'o', 'O'
toggleLayout ==
  /\ layoutHorizontal' = IF secondFileVisible THEN ~layoutHorizontal ELSE layoutHorizontal
  /\ UNCHANGED <<pc, listVars, contentVars, viewVars, secondVars, debugText,
                 focusVars, activeFileIndex, call, searchVars, scanVars>>

\* showHelpModal, bound to 'f', 'F', '?', 'h', 'H'
showHelpModal ==
  /\ root' = "modal"
  /\ focus' = "modal"
  /\ UNCHANGED <<pc, listVars, contentVars, viewVars, secondVars, debugText,
                 isFileListFocused, activeFileIndex, layoutHorizontal, call, searchVars,
                 scanVars>>

\* switch event.Rune() of case tcell.KeyRune
RuneCommand(c) ==
  CASE c = "q" -> quit
    [] c = "r" -> reloadJSONFiles
    [] c = "c" -> toggleCompareView
    [] c = "o" -> toggleLayout
    [] c = "h" -> showHelpModal
    [] c = "/" -> startSearch
    [] c = "n" -> findNextResult
    [] c = "N" -> findPreviousResult
    [] OTHER -> UNCHANGED vars

(***************************************************************************)
(* Search mode: the first switch of the input capture                      *)
(***************************************************************************)
\* case tcell.KeyEsc of the search-mode switch
SearchKeyEsc ==
  /\ pc = "idle"
  /\ searchMode
  /\ cancelSearch

\* a search-mode rune that reaches the command switch instead of the query
SearchKeyRuneFallsThrough(c) ==
  /\ pc = "idle"
  /\ searchMode
  /\ Len(searchString) < MaxQuery
  /\ RuneCommand(c)

\* case tcell.KeyRune of the search-mode switch: the rune is appended and the
\* event is consumed (return nil)
SearchKeyRune(c) ==
  /\ pc = "idle"
  /\ searchMode
  /\ Len(searchString) < MaxQuery
  /\ searchString' = Append(searchString, c)
  /\ debugText' = Msg("Search", 0, 0, searchString')
  /\ UNCHANGED <<pc, listVars, contentVars, viewVars, secondVars, focusVars,
                 activeFileIndex, layoutHorizontal, call, searchResults,
                 currentSearchIndex, searchMode, scanVars>>

\* the index the inner loop of performSearch computes for its next iteration
NextIndex(line, index, query) ==
  LET rest == Index(Suffix(line, index + Len(query)), query)
  IN  IF rest # -1 THEN rest + Len(query) ELSE rest

\* where the loops of performSearch run the loop body next: in line i at
\* index, or at the first index of the next line that holds the query; index
\* -1 at the end of the text
RECURSIVE NextMatch(_, _, _, _)
NextMatch(lines, i, index, query) ==
  IF index # -1 THEN [line |-> i, index |-> index]
  ELSE IF i + 1 < Len(lines)
    THEN NextMatch(lines, i + 1, Index(lines[i + 2], query), query)
    ELSE [line |-> Len(lines), index |-> -1]

\* an end of performSearch that leaves the current index as it was
finishSearchKeepsIndex(results) ==
  /\ pc' = "idle"
  /\ searchResults' = results
  /\ UNCHANGED currentSearchIndex
  /\ IF Len(results) > 0
       THEN /\ highlight' = Itoa(results[1].line)
            /\ scrollRow' = results[1].pos
            /\ scrollCol' = results[1].line
            /\ debugText' = Msg("Found", Len(results), Len(results), <<>>)
       ELSE /\ debugText' = Msg("NoResults", 0, 0, searchString)
            /\ UNCHANGED viewVars
  /\ focus' = "fileContent"
  /\ scanLine' = 0
  /\ scanIndex' = -1

\* the end of performSearch and of the KeyEnter case: the first result is
\* highlighted and the content pane takes the focus
finishSearch(results) ==
  /\ pc' = "idle"
  /\ searchResults' = results
  /\ currentSearchIndex' = 0
  /\ IF Len(results) > 0
       THEN /\ highlight' = Itoa(results[1].line)
            /\ scrollRow' = results[1].pos
            /\ scrollCol' = results[1].line
            /\ debugText' = Msg("Found", Len(results), Len(results), <<>>)
       ELSE /\ debugText' = Msg("NoResults", 0, 0, searchString)
            /\ UNCHANGED viewVars
  /\ focus' = "fileContent"
  /\ scanLine' = 0
  /\ scanIndex' = -1

\* case tcell.KeyEnter of the search-mode switch: performSearch runs up to the
\* first match it records, or to its end when the text holds none; an empty
\* query returns from performSearch at once
SearchKeyEnter ==
  /\ pc = "idle"
  /\ searchMode
  /\ searchMode' = FALSE
  /\ IF searchString = <<>>
       THEN /\ focus' = "fileContent"
            /\ UNCHANGED <<pc, searchResults, currentSearchIndex, viewVars,
                           debugText, scanVars>>
       ELSE LET m == NextMatch(contentText, 0, Index(contentText[1], searchString),
                               searchString)
            IN  IF m.index = -1
                  THEN finishSearch(<<>>)
                  ELSE /\ pc' = "search"
                       /\ searchResults' = <<>>
                       /\ scanLine' = m.line
                       /\ scanIndex' = m.index
                       /\ UNCHANGED <<focus, currentSearchIndex, viewVars, debugText>>
  /\ UNCHANGED <<listVars, contentVars, secondVars, root, isFileListFocused,
                 activeFileIndex, layoutHorizontal, call, searchString>>

\* one run of the body of the inner loop of performSearch: the match is
\* recorded and the next one looked for; the slice cannot grow past the memory
\* of the process
SearchRecord ==
  /\ pc = "search"
  /\ IF Len(searchResults) >= MaxResults
       THEN /\ pc' = "crashed"
            /\ UNCHANGED <<searchResults, currentSearchIndex, viewVars, debugText,
                           focus, scanVars>>
       ELSE LET results == Append(searchResults, [line |-> scanLine, pos |-> scanIndex])
                m == NextMatch(contentText, scanLine,
                               NextIndex(contentText[scanLine + 1], scanIndex, searchString),
                               searchString)
            IN  IF m.index = -1
                  THEN finishSearch(results)
                  ELSE /\ searchResults' = results
                       /\ scanLine' = m.line
                       /\ scanIndex' = m.index
                       /\ UNCHANGED <<pc, focus, currentSearchIndex, viewVars, debugText>>
  /\ UNCHANGED <<listVars, contentVars, secondVars, root, isFileListFocused,
                 activeFileIndex, layoutHorizontal, call, searchString, searchMode>>

\* case tcell.KeyRune outside search mode
KeyRune(c) ==
  /\ pc = "idle"
  /\ ~searchMode
  /\ RuneCommand(c)

\* the runes the search session of Spec types outside search mode
SessionRunes == {"q", "/", "n", "N"}

(***************************************************************************)
(* Spec: the search session.  Files are selected, searched and browsed;    *)
(* every rune can be typed into the query.                                 *)
(***************************************************************************)
Next ==
  \/ SearchKeyEsc
  \/ \E c \in Runes : SearchKeyRune(c)
  \/ SearchKeyEnter
  \/ SearchRecord
  \/ KeyFocusToggle
  \/ \E d \in {1, -1} : KeyUpDown(d)
  \/ KeyEnter
  \/ \E c \in SessionRunes : KeyRune(c)

Spec == Init /\ [][Next]_vars

\* the event loop runs a handler to its end: a search pass that has a next
\* step takes it
FairSpec == Spec /\ WF_vars(SearchRecord)

(***************************************************************************)
(* BrowseSpec: the catalog and the panes.  Files are selected, reloaded    *)
(* and compared, the layout and the help modal toggled; nothing is         *)
(* searched.                                                               *)
(***************************************************************************)
\* the runes the browsing of BrowseSpec types
BrowseRunes == {"q", "r", "c", "o", "h"}

BrowseNext ==
  \/ KeyFocusToggle
  \/ \E d \in {1, -1} : KeyUpDown(d)
  \/ KeyEnter
  \/ ListEnter
  \/ ModalClose
  \/ \E c \in BrowseRunes : KeyRune(c)

BrowseSpec == Init /\ [][BrowseNext]_vars

(***************************************************************************)
(* ReloadSpec: the search session with reloads.  The queries are made of   *)
(* two runes: "n" has three matches in a.json, the search for "o" does not *)
(* end.                                                                    *)
(***************************************************************************)
TypedRunes == {"n", "o"}
ReloadRunes == {"q", "/", "n", "N", "r"}

ReloadNext ==
  \/ SearchKeyEsc
  \/ \E c \in TypedRunes : SearchKeyRune(c)
  \/ SearchKeyEnter
  \/ SearchRecord
  \/ KeyFocusToggle
  \/ \E d \in {1, -1} : KeyUpDown(d)
  \/ KeyEnter
  \/ \E c \in ReloadRunes : KeyRune(c)

ReloadSpec == Init /\ [][ReloadNext]_vars

(***************************************************************************)
(* WalkSpec: the start of main, up to its reloadJSONFiles.  The directory  *)
(* and the moment its context is done are drawn from Dirs.                 *)
(***************************************************************************)
\* the application state initializeApp and setupLayout construct
Constructed ==
  /\ pc = "idle"
  /\ fileList = <<>>
  /\ actionFuncs = <<>>
  /\ debugText = Msg("Help", 0, 0, <<>>)
  /\ currentItem = 0
  /\ contentText = EmptyText
  /\ contentTitle = "Content"
  /\ highlight = ""
  /\ scrollRow = 0
  /\ scrollCol = 0
  /\ secondCreated = FALSE
  /\ secondText = EmptyText
  /\ secondTitle = ""
  /\ secondFileVisible = FALSE
  /\ focus = "fileList"
  /\ root = "layout"
  /\ isFileListFocused = TRUE
  /\ activeFileIndex = 0
  /\ layoutHorizontal = TRUE
  /\ searchString = <<>>
  /\ searchResults = <<>>
  /\ currentSearchIndex = 0
  /\ searchMode = FALSE
  /\ scanLine = 0
  /\ scanIndex = -1

\* initializeApp and setupLayout have run; reloadJSONFiles is about to walk
\* the directory
WalkInit ==
  /\ Constructed
  /\ \E d \in Dirs : \E t \in 0..Len(d) :
       call = [fn |-> "loadJSONFilesWithContext", entries |-> d, cancelAt |-> t,
               done |-> FALSE, ret |-> [err |-> FALSE, files |-> <<>>]]

\* reloadJSONFiles of main: the walk returns and the list is filled from it
MainReload ==
  /\ call.fn = "loadJSONFilesWithContext"
  /\ ~call.done
  /\ LET walk == loadJSONFilesWithContext(call.entries, call.cancelAt)
     IN  /\ call' = [call EXCEPT !.done = TRUE, !.ret = walk]
         /\ ReloadOn(walk)
  /\ UNCHANGED <<pc, contentVars, viewVars, secondVars, focusVars,
                 activeFileIndex, layoutHorizontal, searchVars, scanVars>>

WalkSpec == WalkInit /\ [][MainReload]_vars

(***************************************************************************)
(* SearchFnSpec: the package-level performSearch(content, searchString,    *)
(* options) with options.useRegex false, one iteration of its loop per     *)
(* step.  A content is one string: a sequence of characters.               *)
(***************************************************************************)
\* the characters of the contents and of the queries
ContentChars == {"a", "X", "Y"}
QueryChars == {"a", "X", "x"}

\* the sequences over chars of at most n characters
SeqsUpTo(chars, n) == UNION { [1..k -> chars] : k \in 0..n }

\* strings.ToLower on the characters above
ToLower(s) ==
  [i \in 1..Len(s) |-> CASE s[i] = "X" -> "x" [] s[i] = "Y" -> "y" [] OTHER -> s[i]]

\* performSearch is entered and stands at the head of its loop: content and
\* searchString are lowered unless options.caseSensitive, pos is 0
SearchFnInit ==
  /\ Constructed
  /\ \E content \in SeqsUpTo(ContentChars, MaxContent) :
     \E query \in SeqsUpTo(QueryChars, MaxQuery) :
     \E caseSensitive \in BOOLEAN :
       call = [fn |-> "performSearch", args |-> <<content, query, caseSensitive>>,
               content |-> IF caseSensitive THEN content ELSE ToLower(content),
               searchString |-> IF caseSensitive THEN query ELSE ToLower(query),
               pos |-> 0, positions |-> <<>>, done |-> FALSE]

\* a loop that moves on by one character from the match, not past it
NextPosByOne(pos, index, query) == pos + index + 1

\* pos += index + len(searchString)
NextPos(pos, index, query) == pos + index + Len(query)

\* one iteration of the for loop of performSearch: break and return, or a
\* position is appended; the slice cannot grow past the memory of the process
performSearchLoop ==
  /\ pc = "idle"
  /\ call.fn = "performSearch"
  /\ ~call.done
  /\ LET index == Index(Suffix(call.content, call.pos), call.searchString)
     IN  IF index = -1
           THEN /\ call' = [call EXCEPT !.done = TRUE]
                /\ UNCHANGED pc
           ELSE IF Len(call.positions) >= MaxPositions
             THEN /\ pc' = "crashed"
                  /\ UNCHANGED call
             ELSE /\ call' = [call EXCEPT
                                !.positions = Append(@, call.pos + index),
                                !.pos = NextPos(@, index, call.searchString)]
                  /\ UNCHANGED pc
  /\ UNCHANGED <<listVars, contentVars, viewVars, secondVars, debugText, focusVars,
                 activeFileIndex, layoutHorizontal, searchVars, scanVars>>

SearchFnSpec == SearchFnInit /\ [][performSearchLoop]_vars

(***************************************************************************)
(* colorizeJSON.  A text is one string: a sequence of one-character        *)
(* strings, "\n" between the lines; a color directive that colorizeJSON    *)
(* inserts is one element of the sequence.  No pattern below matches a     *)
(* part of a directive: none holds a quote, a colon, a digit, "true" or    *)
(* "false", and "[" is followed in it by a letter or by "-]".              *)
(***************************************************************************)
Directives ==
  {"[blue]", "[lightgreen]", "[green]", "[yellow]", "[lightblue]", "[red]", "[-]"}

\* \s, \d and the word characters of \b among the characters of the texts
Spaces == {" ", "\n"}
Digits == {"0", "1", "2", "3", "4", "5", "6", "7", "8", "9"}
WordChars ==
  Digits \cup {"a", "e", "f", "k", "l", "n", "r", "s", "t", "u", "x", "E", "_"}

\* the character at the 1-based index i, "" off the text
At(s, i) == IF i \in 1..Len(s) THEN s[i] ELSE ""

\* the least element of a non-empty set of numbers
First(S) == CHOOSE x \in S : \A y \in S : x <= y

\* the index after the run of characters of set that starts at i
SkipRun(s, i, set) == First({ j \in i..(Len(s) + 1) : At(s, j) \notin set })

\* the index of the first quote after i, 0 when there is none
NextQuote(s, i) ==
  LET quotes == { j \in (i + 1)..Len(s) : s[j] = Q }
  IN  IF quotes = {} THEN 0 ELSE First(quotes)

\* [-+]?\d*\.?\d+([eE][-+]?\d+)? at k: the index after the match, 0 for none
NumberEnd(s, k) ==
  LET a == IF At(s, k) \in {"-", "+"} THEN k + 1 ELSE k
      b == SkipRun(s, a, Digits)
      c == IF At(s, b) = "." /\ At(s, b + 1) \in Digits
             THEN SkipRun(s, b + 1, Digits) ELSE b
      d == IF At(s, c + 1) \in {"-", "+"} THEN c + 2 ELSE c + 1
  IN  IF c = a THEN 0
      ELSE IF At(s, c) \in {"e", "E"} /\ At(s, d) \in Digits
        THEN SkipRun(s, d, Digits) ELSE c

\* keyRegex "([^"]+)":\s* at i
KeyEnd(s, i) ==
  LET j == NextQuote(s, i)
  IN  IF At(s, i) = Q /\ j > i + 1 /\ At(s, j + 1) = ":"
        THEN SkipRun(s, j + 2, Spaces) ELSE 0

\* stringRegex :\s*"([^"]*?)" at i
StringEnd(s, i) ==
  LET k == SkipRun(s, i + 1, Spaces)
      j == NextQuote(s, k)
  IN  IF At(s, i) = ":" /\ At(s, k) = Q /\ j # 0 THEN j + 1 ELSE 0

\* the rest of arrayStringRegex after an element and its spaces:
\* (,\s*"([^"]*?)"\s*)*]
RECURSIVE ArrayStringRest(_, _)
ArrayStringRest(s, k) ==
  IF At(s, k) = "]" THEN k + 1
  ELSE IF At(s, k) # "," THEN 0
  ELSE LET q == SkipRun(s, k + 1, Spaces)
           j == NextQuote(s, q)
       IN  IF At(s, q) = Q /\ j # 0
             THEN ArrayStringRest(s, SkipRun(s, j + 1, Spaces)) ELSE 0

\* arrayStringRegex \[\s*"([^"]*?)"\s*(,\s*"([^"]*?)"\s*)*] at i
ArrayStringEnd(s, i) ==
  LET k == SkipRun(s, i + 1, Spaces)
      j == NextQuote(s, k)
  IN  IF At(s, i) = "[" /\ At(s, k) = Q /\ j # 0
        THEN ArrayStringRest(s, SkipRun(s, j + 1, Spaces)) ELSE 0

\* numberRegex :\s*(number)\s*[,}] at i
NumberValueEnd(s, i) ==
  LET n == NumberEnd(s, SkipRun(s, i + 1, Spaces))
      e == SkipRun(s, n, Spaces)
  IN  IF At(s, i) = ":" /\ n # 0 /\ At(s, e) \in {",", "}"} THEN e + 1 ELSE 0

\* the rest of arrayNumberRegex after a number: (?:\s*,\s*number)*\s*\]
RECURSIVE ArrayNumberRest(_, _)
ArrayNumberRest(s, k) ==
  LET q == SkipRun(s, k, Spaces)
      n == NumberEnd(s, SkipRun(s, q + 1, Spaces))
  IN  IF At(s, q) = "]" THEN q + 1
      ELSE IF At(s, q) = "," /\ n # 0 THEN ArrayNumberRest(s, n) ELSE 0

\* arrayNumberRegex \[\s*(number)(?:\s*,\s*number)*\s*\] at i
ArrayNumberEnd(s, i) ==
  LET n == NumberEnd(s, SkipRun(s, i + 1, Spaces))
  IN  IF At(s, i) = "[" /\ n # 0 THEN ArrayNumberRest(s, n) ELSE 0

\* booleanRegex \b(true|false)\b at i
BooleanEnd(s, i) ==
  LET words == { <<"t", "r", "u", "e">>, <<"f", "a", "l", "s", "e">> }
      ends == { i + Len(w) : w \in { x \in words :
                 /\ i + Len(x) - 1 <= Len(s)
                 /\ SubSeq(s, i, i + Len(x) - 1) = x } }
  IN  IF ends # {} /\ At(s, i - 1) \notin WordChars /\ At(s, First(ends)) \notin WordChars
        THEN First(ends) ELSE 0

\* nullRegex :\s*(null) at i
NullEnd(s, i) ==
  LET k == SkipRun(s, i + 1, Spaces)
  IN  IF At(s, i) = ":" /\ k + 3 <= Len(s) /\ SubSeq(s, k, k + 3) = <<"n", "u", "l", "l">>
        THEN k + 4 ELSE 0

\* "(.*?)" at i, the pattern the array string pass applies inside its match:
\* . matches no newline
QuotedEnd(s, i) ==
  LET j == NextQuote(s, i)
  IN  IF At(s, i) = Q /\ j # 0 /\ (\A m \in (i + 1)..(j - 1) : s[m] # "\n")
        THEN j + 1 ELSE 0

\* (\d+) at i, the pattern the array number pass applies inside its match
DigitsEnd(s, i) == IF At(s, i) \in Digits THEN SkipRun(s, i, Digits) ELSE 0

\* the index after the match of the pattern re that starts at i, 0 for none
MatchEnd(re, s, i) ==
  CASE re = "keyRegex" -> KeyEnd(s, i)
    [] re = "stringRegex" -> StringEnd(s, i)
    [] re = "arrayStringRegex" -> ArrayStringEnd(s, i)
    [] re = "numberRegex" -> NumberValueEnd(s, i)
    [] re = "arrayNumberRegex" -> ArrayNumberEnd(s, i)
    [] re = "booleanRegex" -> BooleanEnd(s, i)
    [] re = "nullRegex" -> NullEnd(s, i)
    [] re = "quoted" -> QuotedEnd(s, i)
    [] re = "digits" -> DigitsEnd(s, i)

RECURSIVE ReplaceAllFrom(_, _, _)

\* what colorizeJSON puts in the place of a match m of the pattern re
Replacement(re, m) ==
  CASE re = "keyRegex" ->
         <<"[blue]">> \o SubSeq(m, 1, NextQuote(m, 1)) \o <<"[-]", ":", " ">>
    [] re = "stringRegex" ->
         SubSeq(m, 1, 2) \o <<"[lightgreen]">> \o SubSeq(m, 3, Len(m) - 1)
           \o <<"[-]", m[Len(m)]>>
    [] re = "arrayStringRegex" -> ReplaceAllFrom("quoted", m, 1)
    [] re = "numberRegex" ->
         SubSeq(m, 1, 2) \o <<"[yellow]">> \o SubSeq(m, 3, Len(m)) \o <<"[-]">>
    [] re = "arrayNumberRegex" -> ReplaceAllFrom("digits", m, 1)
    [] re = "booleanRegex" -> <<"[lightblue]">> \o m \o <<"[-]">>
    [] re = "nullRegex" ->
         SubSeq(m, 1, 2) \o <<"[red]">> \o SubSeq(m, 3, Len(m)) \o <<"[-]">>
    [] re = "quoted" -> <<"[green]">> \o m \o <<"[-]">>
    [] re = "digits" -> <<"[yellow]">> \o m \o <<"[-]">>

\* ReplaceAllString / ReplaceAllStringFunc from the index i on: the leftmost
\* matches, none overlapping another
ReplaceAllFrom(re, s, i) ==
  IF i > Len(s) THEN <<>>
  ELSE LET e == MatchEnd(re, s, i)
       IN  IF e = 0 THEN <<s[i]>> \o ReplaceAllFrom(re, s, i + 1)
           ELSE Replacement(re, SubSeq(s, i, e - 1)) \o ReplaceAllFrom(re, s, e)

ReplaceAll(re, s) == ReplaceAllFrom(re, s, 1)

\* colorizeJSON: the seven passes in their order
colorizeJSON(input) ==
  ReplaceAll("nullRegex",
    ReplaceAll("booleanRegex",
      ReplaceAll("arrayNumberRegex",
        ReplaceAll("numberRegex",
          ReplaceAll("arrayStringRegex",
            ReplaceAll("stringRegex",
              ReplaceAll("keyRegex", input)))))))

\* the visible text: the text without the directives
StripDirectives(s) ==
  LET Visible(c) == c \notin Directives
  IN  SelectSeq(s, Visible)

(***************************************************************************)
(* The texts json.MarshalIndent(v, "", "  ") produces for an object v of   *)
(* one or two members.  A value is [items, text]: the text of a string, a  *)
(* number or a literal, or the item texts of an array.                     *)
(***************************************************************************)
\* the pieces a string is made of: characters, an escaped quote, a word
StringAtoms == { <<"x">>, <<":">>, <<" ">>, <<"\\", Q>>, <<"t", "r", "u", "e">> }

\* the concatenation of a sequence of sequences, sep between two of them
RECURSIVE Join(_, _)
Join(parts, sep) ==
  IF parts = <<>> THEN <<>>
  ELSE IF Len(parts) = 1 THEN parts[1]
  ELSE parts[1] \o sep \o Join(Tail(parts), sep)

\* the encoded strings of at most MaxAtoms pieces
StringTexts ==
  { <<Q>> \o Join(f, <<>>) \o <<Q>> : f \in SeqsUpTo(StringAtoms, MaxAtoms) }

NumberTexts == { <<"1">>, <<"-", "2", ".", "5">>, <<"1", "e", "+", "2", "1">> }

LiteralTexts ==
  { <<"t", "r", "u", "e">>, <<"f", "a", "l", "s", "e">>, <<"n", "u", "l", "l">> }

Scalar(text) == [array |-> FALSE, items |-> <<>>, text |-> text]
Array(items) == [array |-> TRUE, items |-> items, text |-> <<>>]

\* the values of the first member, and of a second member
Values ==
  { Scalar(t) : t \in StringTexts \cup NumberTexts \cup LiteralTexts }
    \cup { Array(f) : f \in SeqsUpTo({ <<Q>> \o a \o <<Q>> : a \in StringAtoms }, MaxItems) }
    \cup { Array(f) : f \in SeqsUpTo(NumberTexts, MaxItems) }

SecondValues == { Scalar(t) : t \in NumberTexts \cup LiteralTexts }

\* the text of a value at the indentation of a member
ValueText(v) ==
  IF ~v.array THEN v.text
  ELSE IF v.items = <<>> THEN <<"[", "]">>
  ELSE <<"[", "\n">>
         \o Join([i \in 1..Len(v.items) |-> <<" ", " ", " ", " ">> \o v.items[i]],
                 <<",", "\n">>)
         \o <<"\n", " ", " ", "]">>

\* json.MarshalIndent of the object of the members, [key, value] each
MarshalIndent(members) ==
  <<"{", "\n">>
    \o Join([i \in 1..Len(members) |->
               <<" ", " ", Q>> \o members[i].key \o <<Q, ":", " ">>
                 \o ValueText(members[i].value)],
            <<",", "\n">>)
    \o <<"\n", "}">>

\* the pretty-printed objects handed to colorizeJSON
PrettyTexts ==
  { MarshalIndent(<< [key |-> <<"k">>, value |-> v] >>) : v \in Values }
    \cup { MarshalIndent(<< [key |-> <<"k">>, value |-> v],
                            [key |-> <<"n">>, value |-> w] >>) :
             v \in Values, w \in SecondValues }

(***************************************************************************)
(* ColorizeSpec: colorizeJSON applied to a pretty-printed object.          *)
(***************************************************************************)
ColorizeInit ==
  /\ Constructed
  /\ \E x \in PrettyTexts :
       call = [fn |-> "colorizeJSON", input |-> x, done |-> FALSE, ret |-> <<>>]

\* colorizeJSON returns
colorizeReturn ==
  /\ call.fn = "colorizeJSON"
  /\ ~call.done
  /\ call' = [call EXCEPT !.done = TRUE, !.ret = colorizeJSON(call.input)]
  /\ UNCHANGED <<pc, listVars, contentVars, viewVars, secondVars, debugText,
                 focusVars, activeFileIndex, layoutHorizontal, searchVars, scanVars>>

ColorizeSpec == ColorizeInit /\ [][colorizeReturn]_vars

(***************************************************************************)
(* The claims                                                              *)
(***************************************************************************)
\* the steps of the handlers the claims are about
NextKey == pc = "idle" /\ ~searchMode /\ findNextResult
PreviousKey == pc = "idle" /\ ~searchMode /\ findPreviousResult
SearchInitiation == pc = "idle" /\ ~searchMode /\ searchMode'

\* the match the current index names, after a step
CurrentMatch == searchResults'[currentSearchIndex' + 1]

\* C1: on a non-empty match sequence of length L with current index i in
\* 0..L-1, next sets the index to (i+1) mod L (0 from L-1) and previous sets
\* it to (i-1) mod L (L-1 from 0); neither changes the match sequence.
C1_NavigationWraps ==
  [][ (Len(searchResults) > 0 /\ currentSearchIndex \in 0..(Len(searchResults) - 1)) =>
        /\ NextKey =>
             /\ currentSearchIndex' =
                  (IF currentSearchIndex = Len(searchResults) - 1
                     THEN 0 ELSE currentSearchIndex + 1)
             /\ searchResults' = searchResults
        /\ PreviousKey =>
             /\ currentSearchIndex' =
                  (IF currentSearchIndex = 0
                     THEN Len(searchResults) - 1 ELSE currentSearchIndex - 1)
             /\ searchResults' = searchResults ]_vars

\* a three-match sequence browsed to its last match
C1_Witness ==
  /\ pc = "idle"
  /\ Len(searchResults) = 3
  /\ currentSearchIndex = 2
  /\ debugText = Msg("Result", 3, 3, <<>>)

\* C2: with an empty match sequence, next and previous raise no fault and
\* leave the current index, the match sequence, the highlight, the scroll
\* position and the status line as they were.
C2_EmptyNavigationNoOp ==
  [][ (searchResults = <<>> /\ (NextKey \/ PreviousKey)) =>
        /\ pc' = "idle"
        /\ UNCHANGED <<currentSearchIndex, searchResults, highlight, scrollRow,
                       scrollCol, debugText>> ]_vars

\* a search of a.json that found nothing has ended: next and previous are
\* the keys at hand
C2_Witness ==
  /\ pc = "idle"
  /\ ~searchMode
  /\ searchResults = <<>>
  /\ contentText = DocA
  /\ debugText.kind = "NoResults"

\* the offsets of the leftmost non-overlapping occurrences of query in line,
\* from offset from on
RECURSIVE ScanLine(_, _, _)
ScanLine(line, from, query) ==
  LET rest == Index(Suffix(line, from), query)
  IN  IF rest = -1 THEN <<>>
      ELSE <<from + rest>> \o ScanLine(line, from + rest + Len(query), query)

\* the (lineIndex, columnOffset) pairs of a left-to-right scan of the lines
\* from line i on
RECURSIVE ScanText(_, _, _)
ScanText(lines, i, query) ==
  IF i >= Len(lines) THEN <<>>
  ELSE LET cols == ScanLine(lines[i + 1], 0, query)
       IN  [k \in 1..Len(cols) |-> [line |-> i, pos |-> cols[k]]]
             \o ScanText(lines, i + 1, query)

IsPrefix(s, t) == Len(s) <= Len(t) /\ SubSeq(t, 1, Len(s)) = s

\* a step of the search pass that Enter starts on a non-empty query
SearchPassStep ==
  \/ pc = "search"
  \/ pc = "idle" /\ searchMode /\ searchString # <<>> /\ SearchKeyEnter

\* C3: the search pass records exactly the leftmost non-overlapping literal
\* occurrences of the query in each line: every recorded pair is an
\* occurrence of the scan, in scan order, and when the pass ends every
\* occurrence of the scan is recorded once.
C3_RecordsExactOccurrences ==
  [][ SearchPassStep =>
        /\ IsPrefix(searchResults', ScanText(contentText, 0, searchString))
        /\ pc' = "idle" => searchResults' = ScanText(contentText, 0, searchString) ]_vars

\* (l1, c1) comes before (l2, c2) in the document
Before(m1, m2) == m1.line < m2.line \/ (m1.line = m2.line /\ m1.pos < m2.pos)

\* C4: in every reachable state the match sequence is in strict document
\* order, so no position is listed twice.
C4_StrictDocumentOrder ==
  \A k \in 1..(Len(searchResults) - 1) : Before(searchResults[k], searchResults[k + 1])

\* C5: Enter in Composing always completes: the search pass ends, search
\* mode is off and the content pane has the focus.
C5_EnterCompletes ==
  (pc = "search") ~> (pc = "idle" /\ ~searchMode /\ focus = "fileContent")

\* C6: after a search pass that found matches and after next or previous on
\* a non-empty match sequence, the highlight targets the match at the current
\* index and the content pane is scrolled to the row of that match's line.
C6_ScrollsToMatchLine ==
  [][ ( \/ (SearchPassStep /\ pc' = "idle" /\ searchResults' # <<>>)
        \/ (searchResults # <<>> /\ (NextKey \/ PreviousKey)) ) =>
        /\ highlight' = Itoa(CurrentMatch.line)
        /\ scrollRow' = CurrentMatch.line ]_vars

\* C7: search initiation from a non-search state enters Composing with the
\* query empty and the prior match sequence cleared.
C7_InitiationClearsResults ==
  [][ SearchInitiation =>
        /\ searchString' = <<>>
        /\ searchResults' = <<>>
        /\ currentSearchIndex' = 0 ]_vars

\* C8: Enter in Composing with an empty query returns to Idle: search mode
\* off, focus on the content pane and no match sequence active, whatever was
\* searched before.
C8_EmptyEnterReturnsToIdle ==
  [][ (searchString = <<>> /\ SearchKeyEnter) =>
        /\ pc' = "idle"
        /\ ~searchMode'
        /\ focus' = "fileContent"
        /\ searchResults' = <<>> ]_vars

\* C9: Escape in Composing returns to Idle: search mode off, query empty,
\* match sequence empty with current index 0, highlight cleared, focus on the
\* content pane.
C9_EscapeReturnsToIdle ==
  [][ SearchKeyEsc =>
        /\ pc' = "idle"
        /\ ~searchMode'
        /\ searchString' = <<>>
        /\ searchResults' = <<>>
        /\ currentSearchIndex' = 0
        /\ highlight' = ""
        /\ focus' = "fileContent" ]_vars

\* a search of a.json was cancelled from the file list
C9_Witness ==
  /\ pc = "idle"
  /\ ~searchMode
  /\ debugText.kind = "Empty"
  /\ contentText = DocA
  /\ searchResults = <<>>
  /\ highlight = ""
  /\ focus = "fileContent"

\* C10: in Composing a character keystroke only appends the character to the
\* query and updates the status line: whatever command the key has outside
\* search mode does not run, and the match sequence, the current index, the
\* active file, the focus flag, the layout and the panes stay as they were.
C10_KeystrokeOnlyAppends ==
  [][ (pc = "idle" /\ searchMode /\ searchMode') =>
        /\ \E c \in Runes : searchString' = Append(searchString, c)
        /\ debugText' = Msg("Search", 0, 0, searchString')
        /\ UNCHANGED <<pc, searchResults, currentSearchIndex, activeFileIndex,
                       isFileListFocused, focus, root, layoutHorizontal, listVars,
                       contentVars, viewVars, secondVars>> ]_vars

\* the quit key and the compare key typed into the query of a new search,
\* with the matches of the search before still held
C10_Witness ==
  /\ pc = "idle"
  /\ searchMode
  /\ searchString = <<"q", "c">>
  /\ debugText = Msg("Search", 0, 0, <<"q", "c">>)
  /\ Len(searchResults) = 3

\* a step that puts another document into the content pane
Rerender == contentText' # contentText

\* C11: match positions never outlive the document they were computed from:
\* a step that re-renders the content pane with another document leaves no
\* earlier positions in the match sequence for next and previous.
C11_RerenderDropsMatches ==
  [][ Rerender => searchResults' = <<>> ]_vars

\* C12: the process ends only through the quit key: no sequence of key
\* events, for any catalog (an empty one included), reaches an uncaught
\* runtime fault.
C12_NoRuntimeFault == pc # "crashed"

\* a document is displayed: a file action has rendered one into the pane
DocumentDisplayed == contentTitle # "Content"

\* C13: activeFileIndex always identifies the catalog entry whose content
\* the primary pane displays: whenever a document is displayed it is within
\* the bounds of the catalog and names the file the document was rendered
\* from.
C13_ActiveIndexNamesDisplayed ==
  (pc = "idle" /\ DocumentDisplayed) =>
     /\ activeFileIndex < Len(actionFuncs)
     /\ actionFuncs[activeFileIndex + 1].file = contentTitle

\* the status line a file action leaves when its read or decode fails
FailureMsg(status) ==
  Msg(IF status = "unreadable" THEN "ReadFailed" ELSE "InvalidJSON", 0, 0, <<>>)

FailedReload ==
  /\ KeyRune("r")
  /\ debugText' = Msg("LoadFailed", 0, 0, <<>>)

\* C15: when a reload fails (the directory walk returns an error or is
\* cancelled) the file list displayed before it and its selectable actions
\* are left intact.
C15_FailedReloadKeepsCatalog ==
  [][ FailedReload => UNCHANGED <<fileList, actionFuncs>> ]_vars

\* the context of the walk was done before the walk had visited every entry
CancelledWalk ==
  /\ call.fn = "loadJSONFilesWithContext"
  /\ call.done
  /\ call.cancelAt < Len(call.entries)

\* C16: the walk checks the cancellation signal at every visited entry: if
\* the context is done before the walk completes, at whichever entry,
\* loadJSONFilesWithContext returns an error and no file list (what was
\* gathered is discarded) and reloadJSONFiles adds no entry to the list.
C16_CancelledWalkYieldsNothing ==
  CancelledWalk =>
     /\ call.ret = [err |-> TRUE, files |-> <<>>]
     /\ fileList = <<>>
     /\ actionFuncs = <<>>
     /\ debugText = Msg("LoadFailed", 0, 0, <<>>)

\* the context was done at the visit of the last entry, after two JSON files
\* had been gathered
C16_Witness ==
  /\ CancelledWalk
  /\ Len(call.entries) = 4
  /\ call.cancelAt = Len(call.entries) - 1
  /\ call.entries[2].path = "a.json"
  /\ call.entries[3].path = "b.json"
  /\ ~call.entries[4].err
  /\ call.ret.err

\* the package-level performSearch has returned from a literal, case-sensitive
\* search for a non-empty query
LiteralSearchDone ==
  /\ call.fn = "performSearch"
  /\ call.done
  /\ call.args[3]
  /\ call.args[2] # <<>>

\* query occurs in content at the 0-based offset p
Occurs(content, query, p) == SubSeq(content, p + 1, p + Len(query)) = query

\* C17: with useRegex false, caseSensitive true and a non-empty query the
\* package-level performSearch returns the start offsets of a left-to-right
\* scan: every offset is an occurrence of the query, the offsets ascend
\* without overlap, and every occurrence of the content is returned or
\* overlaps a returned one that starts before it; "a" in "aXaYa" gives
\* 0, 2, 4.
C17_LiteralOffsets ==
  LiteralSearchDone =>
    LET content == call.args[1]
        query == call.args[2]
        positions == call.positions
    IN  /\ \A k \in 1..Len(positions) : Occurs(content, query, positions[k])
        /\ \A k \in 1..(Len(positions) - 1) :
             positions[k] + Len(query) <= positions[k + 1]
        /\ \A p \in 0..(Len(content) - Len(query)) :
             Occurs(content, query, p) =>
               \E k \in 1..Len(positions) :
                 positions[k] <= p /\ p < positions[k] + Len(query)
        /\ positions = ScanLine(content, 0, query)
        /\ (content = <<"a", "X", "a", "Y", "a">> /\ query = <<"a">>) =>
             positions = <<0, 2, 4>>

\* "a" in "aXaYa" has been searched
C17_Witness ==
  /\ LiteralSearchDone
  /\ call.args[1] = <<"a", "X", "a", "Y", "a">>
  /\ call.args[2] = <<"a">>
  /\ call.positions = <<0, 2, 4>>

\* C18: removing the directives from colorizeJSON(x) gives x back, character
\* for character, for every pretty-printed object x (string values with an
\* escaped quote before a colon included): the passes insert directives and
\* never delete, add or rewrite a character of the content.
C18_StripGivesInput ==
  (call.fn = "colorizeJSON" /\ call.done) =>
     StripDirectives(call.ret) = call.input

\* the compare key, at a moment when the file of the current item can be read
\* and decodes as a JSON object
CompareReadableEntry ==
  /\ pc = "idle"
  /\ ~searchMode
  /\ currentItem < Len(actionFuncs)
  /\ toggleCompareViewOn("ok")

\* C19: the compare command, issued with the comparison pane hidden while
\* the selected entry is a readable, valid JSON file, makes the comparison
\* pane visible with the content of that entry and leaves the primary pane
\* as it was, for every selected entry, the one marked as active included.
C19_CompareShowsSelected ==
  [][ (~secondFileVisible /\ CompareReadableEntry) =>
        /\ secondFileVisible'
        /\ secondText' = Rendered(actionFuncs[currentItem + 1].file)
        /\ UNCHANGED contentVars ]_vars

\* the current index is valid for the match sequence
IndexValid ==
  /\ searchResults # <<>> => currentSearchIndex \in 0..(Len(searchResults) - 1)
  /\ searchResults = <<>> => currentSearchIndex = 0

\* C20, as stated: in every reachable state the current search index is
\* valid for the match sequence: within its bounds when the sequence is not
\* empty, 0 when it is.
C20_IndexValidEverywhere == IndexValid

\* C20, amended: whenever no search pass is under way (a handler has
\* returned and the event loop waits for the next key) the current search
\* index is valid for the match sequence, after any interleaving of search
\* start, typing, Enter, Escape, next, previous, file selection and reload,
\* so next and previous index within the sequence.
C20_IndexValidBetweenKeys == pc # "search" => IndexValid

\* the last of three matches is current, a reload has emptied the catalog
\* since they were found
C20_Witness ==
  /\ pc = "idle"
  /\ Len(searchResults) = 3
  /\ currentSearchIndex = 2
  /\ fileList = <<>>
  /\ contentTitle = "a.json"

\* C21: the focus flag agrees with the real focus: in every reachable state
\* outside search mode and outside the help modal, isFileListFocused is true
\* exactly when the file list holds the input focus.
C21_FlagAgreesWithFocus ==
  (pc = "idle" /\ ~searchMode /\ root = "layout") =>
     (isFileListFocused <=> focus = "fileList")

\* an iteration of the loop of the package-level performSearch that goes
\* round again: a position is appended and the loop is back at its head
SearchIteration ==
  /\ call.fn = "performSearch"
  /\ call'.fn = "performSearch"
  /\ Len(call'.positions) = Len(call.positions) + 1

\* C22: the package-level performSearch terminates with a finite position
\* list for every content and every query in literal mode, the empty query
\* included: the scan cursor strictly advances on every iteration (and the
\* slice of positions never exhausts the memory of the process).
C22_CursorAdvances ==
  /\ [][ SearchIteration => call'.pos > call.pos ]_vars
  /\ [](pc # "crashed")

====
